---- MODULE Spec2Model ----
(***************************************************************************)
(* SlangTerm backend: the vector index (EmbeddingService), the handlers    *)
(* that change the verified-entry set, and hybrid search.                  *)
(*                                                                         *)
(* Strings are sequences of one-character strings.  Vectors are tuples of  *)
(* integers on a grid whose squared unit is 1/DistUnit, so a squared L2    *)
(* distance d on the grid is d/DistUnit, and a similarity 1 - distance/2   *)
(* is (SimScale - d)/SimScale with SimScale = 2*DistUnit.  Index positions *)
(* are 1-based here (0-based in the code); 0 stands for faiss's -1.        *)
(***************************************************************************)
EXTENDS Integers, Sequences, FiniteSets, TLC

VARIABLES
    store,           \* slang_terms table: id -> row, or NoRow
    next_id,         \* the table's autoincrement counter
    votes,           \* slang_votes table: sequence of rows; age is the days since created_at
    search_history,  \* search_history table: sequence of rows; age is the days since created_at
    index,           \* embedding_service.index
    slang_ids,       \* embedding_service.slang_ids
    index_src,       \* history: for each vector in index, the id of the term it was added for
    started,         \* the startup event has run
    last,            \* the request just served and its response
    threshold,       \* embedding_service.threshold
    dimension,       \* embedding_service.dimension
    builder,         \* the threads inside embedding_service.build_index: position and locals
    searcher         \* a thread inside embedding_service.search: position and locals

vars == <<store, next_id, votes, search_history, index, slang_ids, index_src, started, last,
          threshold, dimension, builder, searcher>>

-----------------------------------------------------------------------------
(* Bounds of the model *)

MaxId == 3
MaxRows == 2
MaxLimit == 2
MaxHistory == 1

(* Program constants *)

EMBEDDINGS_DIMENSION == 2
DistUnit == 15
SimScale == 2 * DistUnit
SIMILARITY_THRESHOLD == 21
MAX_SUBMISSIONS_PER_DAY == 5

-----------------------------------------------------------------------------
(* Users and roles *)

Users == {"u1", "m1"}

Role(u) == IF u = "m1" THEN "moderator" ELSE "user"

IsModerator(u) == Role(u) \in {"admin", "moderator"}

NoUser == "none"

-----------------------------------------------------------------------------
(* Strings *)

lower(s) ==
    [i \in 1..Len(s) |->
        IF s[i] = "A" THEN "a" ELSE IF s[i] = "B" THEN "b" ELSE s[i]]

(* A query taken as it comes *)
strip_skipped(s) == s

RECURSIVE strip(_)
strip(s) ==
    IF s = <<>> THEN s
    ELSE IF Head(s) = " " THEN strip(Tail(s))
    ELSE IF s[Len(s)] = " " THEN strip(SubSeq(s, 1, Len(s) - 1))
    ELSE s

RECURSIVE join(_)
join(ss) ==
    IF ss = <<>> THEN <<>>
    ELSE IF Len(ss) = 1 THEN ss[1]
    ELSE ss[1] \o <<" ">> \o join(Tail(ss))

(* SQL LIKE: % matches any run of characters, _ any one character *)
RECURSIVE like(_, _)
like(s, pat) ==
    IF pat = <<>> THEN s = <<>>
    ELSE IF Head(pat) = "%"
        THEN like(s, Tail(pat)) \/ (s # <<>> /\ like(Tail(s), pat))
    ELSE IF Head(pat) = "_"
        THEN s # <<>> /\ like(Tail(s), Tail(pat))
    ELSE s # <<>> /\ Head(s) = Head(pat) /\ like(Tail(s), Tail(pat))

(* column.contains(other): column LIKE '%' || other || '%', wildcards in other not escaped *)
contains(col, other) == like(col, <<"%">> \o other \o <<"%">>)

-----------------------------------------------------------------------------
(* The embedder *)

RECURSIVE Count(_, _)
Count(s, chars) ==
    IF s = <<>> THEN 0
    ELSE (IF Head(s) \in chars THEN 1 ELSE 0) + Count(Tail(s), chars)

(* model.encode: a deterministic map from a text to a vector of the configured dimension *)
encode(text) ==
    <<3 * Count(text, {"a", "A"}), 3 * Count(text, {"b", "B"})>>

get_embedding(text) == encode(text)

(* f"{term} {meaning}" + " " + " ".join(examples[:2]) *)
text_to_embed(term, meaning, examples) ==
    LET base == term \o <<" ">> \o meaning
    IN IF Len(examples) > 0
       THEN base \o <<" ">> \o join(SubSeq(examples, 1, IF Len(examples) < 2 THEN Len(examples) ELSE 2))
       ELSE base

NoEmbedding == <<>>

-----------------------------------------------------------------------------
(* The store *)

Ids == 1..MaxId

NoRow == [present |-> FALSE, term |-> <<>>, meaning |-> <<>>, examples |-> <<>>,
          is_verified |-> FALSE, submitted_by |-> NoUser, embedding |-> NoEmbedding]

Present(st) == {i \in Ids : st[i].present}

Verified(st) == {i \in Ids : st[i].present /\ st[i].is_verified}

RECURSIVE SeqOfSet(_)
SeqOfSet(S) ==
    IF S = {} THEN <<>>
    ELSE LET m == CHOOSE x \in S : \A y \in S : x <= y
         IN <<m>> \o SeqOfSet(S \ {m})

Range(s) == {s[i] : i \in 1..Len(s)}

(* db.query(SlangTerm).filter(pred).all(): rows in the table's order, ascending id *)
QueryAll(S) == SeqOfSet(S)

Payloads ==
    { [term |-> <<"a">>, meaning |-> <<"c">>, examples |-> << <<"c">>, <<"c">>, <<"b">> >>],
      [term |-> <<"A", "b">>, meaning |-> <<"c">>, examples |-> <<>>] }

-----------------------------------------------------------------------------
(* EmbeddingService *)

NoneIndex == [is_none |-> TRUE, vecs |-> <<>>]

IndexFlatL2(vecs) == [is_none |-> FALSE, vecs |-> vecs]

ntotal(ix) == Len(ix.vecs)

(* The loop of build_index over rows, from the point where embeddings and      *)
(* self.slang_ids are acc.embeddings and acc.slang_ids.  failAt is the id of   *)
(* the term whose model.encode raises (0: none does).                         *)
RECURSIVE build_loop(_, _, _)
build_loop(rows, acc, failAt) ==
    IF rows = <<>> \/ acc.raised THEN acc
    ELSE LET id == Head(rows)
             term == acc.store[id]
         IN IF term.embedding # NoEmbedding
            THEN build_loop(Tail(rows),
                     [acc EXCEPT !.embeddings = Append(@, term.embedding),
                                 !.src = Append(@, id),
                                 !.slang_ids = Append(@, id)],
                     failAt)
            ELSE IF failAt = id
            THEN [acc EXCEPT !.raised = TRUE, !.failed = id, !.encoded = Append(@, id)]
            ELSE LET embedding == encode(text_to_embed(term.term, term.meaning, term.examples))
                 IN build_loop(Tail(rows),
                        [acc EXCEPT !.store[id].embedding = embedding,
                                    !.encoded = Append(@, id),
                                    !.embeddings = Append(@, embedding),
                                    !.src = Append(@, id),
                                    !.slang_ids = Append(@, id)],
                        failAt)

(* self.index.add(embeddings_np): faiss takes vectors of the index's dimension only.  *)
(* Every vector is an output of the one model, so the lengths agree with each other. *)
add_accepts(embeddings) ==
    \A i \in 1..Len(embeddings) : Len(embeddings[i]) = dimension

(* A build_index that keeps appending to the list it finds *)
reset_ids_skipped(ids) == ids

(* build_index, line 33: self.slang_ids = [] *)
reset_ids(ids) == <<>>

(* A build_index that treats a table without verified terms as an error *)
empty_index_build_refused(st, ix, ids, src) ==
    [store |-> st, index |-> ix, slang_ids |-> ids, index_src |-> src, raised |-> TRUE,
     encoded |-> <<>>, failed |-> 0]

(* build_index, line 25 to 29: if not slang_terms, an empty index and an empty list *)
empty_index_build(st, ix, ids, src) ==
    [store |-> st, index |-> IndexFlatL2(<<>>), slang_ids |-> <<>>, index_src |-> <<>>,
     raised |-> FALSE, encoded |-> <<>>, failed |-> 0]

(* A build_index that adds the vectors to the index it finds *)
new_index_appended(ix, embeddings) ==
    IndexFlatL2((IF ix.is_none THEN <<>> ELSE ix.vecs) \o embeddings)

(* build_index, line 56 and 57: a new index, and the vectors of this run added to it *)
new_index(ix, embeddings) == IndexFlatL2(embeddings)

(* build_index(db): the service and the store afterwards; raised when it ended in an  *)
(* exception.  encoded lists the terms model.encode was called for, in order, and     *)
(* failed is the term whose call raised (0: none).                                    *)
build_index(st, ix, ids, src, failAt) ==
    LET slang_terms == QueryAll(Verified(st))
    IN IF slang_terms = <<>>
       THEN empty_index_build(st, ix, ids, src)
       ELSE LET r == build_loop(slang_terms,
                        [store |-> st, embeddings |-> <<>>, src |-> <<>>,
                         slang_ids |-> reset_ids(ids), raised |-> FALSE, encoded |-> <<>>,
                         failed |-> 0],
                        failAt)
            IN IF r.raised
               THEN [store |-> r.store, index |-> ix, slang_ids |-> r.slang_ids,
                     index_src |-> src, raised |-> TRUE, encoded |-> r.encoded,
                     failed |-> r.failed]
               ELSE IF ~add_accepts(r.embeddings)
               THEN [store |-> r.store, index |-> IndexFlatL2(<<>>), slang_ids |-> r.slang_ids,
                     index_src |-> <<>>, raised |-> TRUE, encoded |-> r.encoded, failed |-> 0]
               ELSE [store |-> r.store, index |-> new_index(ix, r.embeddings),
                     slang_ids |-> r.slang_ids, index_src |-> r.src, raised |-> FALSE,
                     encoded |-> r.encoded, failed |-> 0]

(* The terms whose encode a build of st may raise on: those it has to embed *)
MayFail(st) == {0} \cup {i \in Verified(st) : st[i].embedding = NoEmbedding}

(* Squared L2 distance, on the grid *)
L2(v, w) ==
    LET sq(i) == (v[i] - w[i]) * (v[i] - w[i])
    IN sq(1) + sq(2)

Injective(f) == \A i, j \in DOMAIN f : i # j => f[i] # f[j]

Min(a, b) == IF a < b THEN a ELSE b

(* index.search(q, k): the rows of indices a flat L2 index may return: the     *)
(* min(k, ntotal) nearest positions, nearest first, in any order among equal  *)
(* distances, padded with 0 (the code's -1) up to k                            *)
faiss_search(vecs, q, k) ==
    LET n == Len(vecs)
        m == Min(k, n)
        d(p) == L2(vecs[p], q)
    IN { [i \in 1..k |-> IF i <= m THEN r[i] ELSE 0] :
            r \in { r \in [1..m -> 1..n] :
                      /\ Injective(r)
                      /\ \A i, j \in 1..m : i < j => d(r[i]) <= d(r[j])
                      /\ \A p \in 1..n : (\A i \in 1..m : r[i] # p)
                                             => \A i \in 1..m : d(r[i]) <= d(p) } }

(* similarity = 1.0 - distance / 2.0, in units of 1/SimScale *)
similarity(dist) == SimScale - dist

(* A strict threshold comparison *)
passes_strict(sim) == sim > threshold

(* A search without the threshold filter *)
passes_all(sim) == TRUE

(* similarity >= self.threshold *)
passes(sim) == sim >= threshold

(* The loop of EmbeddingService.search over indices[0], from position i on *)
RECURSIVE search_loop(_, _, _, _, _)
search_loop(indices, i, vecs, ids, q) ==
    IF i > Len(indices) THEN <<>>
    ELSE LET idx == indices[i]
             rest == search_loop(indices, i + 1, vecs, ids, q)
         IN IF idx # 0 /\ idx <= Len(ids)
            THEN LET sim == similarity(L2(vecs[idx], q))
                 IN IF passes(sim)
                    THEN <<[slang_id |-> ids[idx], similarity |-> sim]>> \o rest
                    ELSE rest
            ELSE rest

(* EmbeddingService.search(query, limit), given the row of indices faiss returned *)
search(ix, ids, query, indices) ==
    IF ix.is_none \/ ntotal(ix) = 0 THEN <<>>
    ELSE search_loop(indices, 1, ix.vecs, ids, encode(query))

(* An index search that asks faiss for every vector instead of limit *)
Indices_unlimited(ix, query, limit) ==
    IF ix.is_none \/ ntotal(ix) = 0 THEN {<<>>}
    ELSE faiss_search(ix.vecs, encode(query), ntotal(ix))

(* The rows of indices the search of ix may get from faiss *)
Indices(ix, query, limit) ==
    IF ix.is_none \/ ntotal(ix) = 0 THEN {<<>>}
    ELSE faiss_search(ix.vecs, encode(query), limit)

-----------------------------------------------------------------------------
(* Requests and responses.  A request that is refused before it changes      *)
(* anything (401, 403, 404, a failed encode before the commit) leaves every  *)
(* variable as it was, and is a guard of its action here.                    *)

Resp(op, status) ==
    [op |-> op, status |-> status, action |-> "",
     query |-> <<>>, limit |-> 0, semantic |-> FALSE,
     indices |-> <<>>, hits |-> <<>>,
     rows |-> <<>>, keyword |-> FALSE, results |-> <<>>,
     ids |-> <<>>, before |-> <<>>, encoded |-> <<>>, failed |-> 0,
     days |-> 0, scores |-> <<>>, user |-> NoUser, id |-> 0, vote |-> 0]

(* A complete (index, slang_ids) pair *)
Pair(ix, ids) == [index |-> ix, slang_ids |-> ids]

(* The threads that call build_index *)
Builders == {"t1", "t2"}

(* A thread that is not inside build_index and has not returned from it *)
IdleBuilder ==
    [pc |-> "idle", slang_terms |-> <<>>, i |-> 0, embeddings |-> <<>>, done |-> FALSE]

(* A thread that returned from build_index normally.  slang_terms and done   *)
(* are history: the rows its run was about                                   *)
ReturnedBuilder(slang_terms) ==
    [IdleBuilder EXCEPT !.slang_terms = slang_terms, !.done = TRUE]

(* No thread is inside search.  complete and pairs are history: the pair the  *)
(* last build_index that returned normally left (or the one of construction), *)
(* and the complete pairs there were while the call ran                       *)
IdleSearcher(complete) ==
    [pc |-> "idle", query |-> <<>>, limit |-> 0, indices |-> <<>>, vecs |-> <<>>,
     i |-> 0, results |-> <<>>, complete |-> complete, pairs |-> {}]

(* What search keeps of history when a build_index returns with the pair p *)
Completed(p) ==
    [searcher EXCEPT !.complete = p, !.pairs = IF searcher.pc = "idle" THEN @ ELSE @ \cup {p}]

(* The state after import: an empty database and the service as __init__ leaves it *)
Constructed ==
    /\ builder = [t \in Builders |-> IdleBuilder]
    /\ searcher = IdleSearcher(Pair(NoneIndex, <<>>))
    /\ store = [i \in Ids |-> NoRow]
    /\ next_id = 1
    /\ votes = <<>>
    /\ search_history = <<>>
    /\ index = NoneIndex
    /\ slang_ids = <<>>
    /\ index_src = <<>>
    /\ started = FALSE
    /\ last = Resp("none", 0)

(* config.py read with no environment variable set *)
Init ==
    /\ threshold = SIMILARITY_THRESHOLD
    /\ dimension = EMBEDDINGS_DIMENSION
    /\ Constructed

(* Apply the outcome b of a build_index call to the service and the store *)
Built(b) ==
    /\ store' = b.store
    /\ index' = b.index
    /\ slang_ids' = b.slang_ids
    /\ index_src' = b.index_src

-----------------------------------------------------------------------------
(* scripts/import_urban_dictionary.py, run with one term that is new *)

import_terms ==
    \E p \in Payloads :
        /\ next_id <= MaxId
        /\ Cardinality(Present(store)) < MaxRows
        /\ ~ \E i \in Present(store) : store[i].term = p.term
        /\ store' = [store EXCEPT ![next_id] =
               [present |-> TRUE, term |-> p.term, meaning |-> p.meaning,
                examples |-> p.examples, is_verified |-> TRUE,
                submitted_by |-> NoUser, embedding |-> NoEmbedding]]
        /\ next_id' = next_id + 1
        /\ last' = Resp("import", 0)
        /\ UNCHANGED <<threshold, dimension, builder, searcher, votes, search_history, index, slang_ids, index_src, started>>

(* main.py startup_event: errors of the build are printed, not raised *)
startup_event ==
    /\ ~started
    /\ started' = TRUE
    /\ \E failAt \in MayFail(store) :
        LET b == build_index(store, index, slang_ids, index_src, failAt)
        IN /\ Built(b)
           /\ last' = Resp("startup", IF b.raised THEN 500 ELSE 200)
    /\ UNCHANGED <<threshold, dimension, builder, searcher, next_id, votes, search_history>>

-----------------------------------------------------------------------------
(* routers/slang.py *)

SubmissionsToday(st, u) == Cardinality({i \in Present(st) : st[i].submitted_by = u})

(* dependencies.py check_submission_limit passes *)
check_submission_limit(st, u) ==
    IsModerator(u) \/ SubmissionsToday(st, u) < MAX_SUBMISSIONS_PER_DAY

create_slang_term ==
    \E p \in Payloads, u \in Users :
        /\ started
        /\ next_id <= MaxId
        /\ Cardinality(Present(store)) < MaxRows
        /\ check_submission_limit(store, u)
        /\ LET is_verified == IsModerator(u)
               new_slang == [present |-> TRUE, term |-> p.term, meaning |-> p.meaning,
                             examples |-> p.examples, is_verified |-> is_verified,
                             submitted_by |-> u,
                             embedding |-> get_embedding(text_to_embed(p.term, p.meaning, p.examples))]
               st1 == [store EXCEPT ![next_id] = new_slang]
           IN IF \E i \in Present(store) : lower(store[i].term) = lower(p.term)
              THEN /\ last' = Resp("create", 409)
                   /\ UNCHANGED <<store, next_id, votes, index, slang_ids, index_src>>
              ELSE /\ next_id' = next_id + 1
                   /\ votes' = Append(votes, [slang_id |-> next_id, user_id |-> u, vote |-> 1, age |-> 0])
                   /\ IF is_verified
                      THEN \E failAt \in MayFail(st1) :
                             LET b == build_index(st1, index, slang_ids, index_src, failAt)
                             IN /\ Built(b)
                                /\ last' = Resp("create", IF b.raised THEN 500 ELSE 201)
                      ELSE /\ store' = st1
                           /\ last' = Resp("create", 201)
                           /\ UNCHANGED <<index, slang_ids, index_src>>
        /\ UNCHANGED <<threshold, dimension, builder, searcher, search_history, started>>

(* An update that leaves the cached vector as it was *)
update_embedding_kept(old, text) == old

(* "Update embedding" in update_slang_term and moderate_submission: the cached vector *)
(* of the row becomes the vector of its new text                                      *)
update_embedding(old, text) == get_embedding(text)

(* dependencies.py get_slang_term and check_slang_owner pass *)
check_slang_owner(st, id, u) ==
    /\ st[id].present
    /\ IsModerator(u) \/ st[id].submitted_by = u

update_slang_term ==
    \E id \in Ids, p \in Payloads, u \in Users :
        /\ started
        /\ check_slang_owner(store, id, u)
        /\ LET current_user == store[id].submitted_by
               is_verified == IF ~IsModerator(current_user) THEN FALSE ELSE store[id].is_verified
               st1 == [store EXCEPT ![id].term = p.term, ![id].meaning = p.meaning,
                                    ![id].examples = p.examples,
                                    ![id].is_verified = is_verified,
                                    ![id].embedding =
                                        update_embedding(store[id].embedding,
                                            text_to_embed(p.term, p.meaning, p.examples))]
           IN /\ current_user # NoUser
              /\ IF is_verified
                 THEN \E failAt \in MayFail(st1) :
                        LET b == build_index(st1, index, slang_ids, index_src, failAt)
                        IN /\ Built(b)
                           /\ last' = [Resp("update", IF b.raised THEN 500 ELSE 200)
                                          EXCEPT !.user = u, !.id = id]
                 ELSE /\ store' = st1
                      /\ last' = [Resp("update", 200) EXCEPT !.user = u, !.id = id]
                      /\ UNCHANGED <<index, slang_ids, index_src>>
        /\ UNCHANGED <<threshold, dimension, builder, searcher, next_id, votes, search_history, started>>

delete_slang_term ==
    \E id \in Ids, u \in Users :
        /\ started
        /\ check_slang_owner(store, id, u)
        /\ LET st1 == [store EXCEPT ![id] = NoRow]
           IN /\ votes' = SelectSeq(votes, LAMBDA v : v.slang_id # id)
              /\ \E failAt \in MayFail(st1) :
                   LET b == build_index(st1, index, slang_ids, index_src, failAt)
                   IN /\ Built(b)
                      /\ last' = Resp("delete", IF b.raised THEN 500 ELSE 204)
        /\ UNCHANGED <<threshold, dimension, builder, searcher, next_id, search_history, started>>

-----------------------------------------------------------------------------
(* routers/admin.py *)

(* auth.py get_moderator_user passes *)
get_moderator_user(u) == IsModerator(u)

(* db.delete(slang_term) with votes left on it: their slang_id is set to NULL (0) *)
Nullify(vs, id) ==
    [k \in 1..Len(vs) |-> IF vs[k].slang_id = id THEN [vs[k] EXCEPT !.slang_id = 0] ELSE vs[k]]

moderate_approve ==
    \E id \in Ids, u \in Users :
        /\ started
        /\ store[id].present
        /\ get_moderator_user(u)
        /\ LET st1 == [store EXCEPT ![id].is_verified = TRUE]
           IN \E failAt \in MayFail(st1) :
                LET b == build_index(st1, index, slang_ids, index_src, failAt)
                IN /\ Built(b)
                   /\ last' = [Resp("moderate", IF b.raised THEN 500 ELSE 200)
                                  EXCEPT !.action = "approve"]
        /\ UNCHANGED <<threshold, dimension, builder, searcher, next_id, votes, search_history, started>>

moderate_reject ==
    \E id \in Ids, u \in Users :
        /\ started
        /\ store[id].present
        /\ get_moderator_user(u)
        /\ store' = [store EXCEPT ![id] = NoRow]
        /\ votes' = Nullify(votes, id)
        /\ last' = [Resp("moderate", 200) EXCEPT !.action = "reject"]
        /\ UNCHANGED <<threshold, dimension, builder, searcher, next_id, search_history, index, slang_ids, index_src, started>>

moderate_update ==
    \E id \in Ids, p \in Payloads, u \in Users :
        /\ started
        /\ store[id].present
        /\ get_moderator_user(u)
        /\ LET st1 == [store EXCEPT ![id].term = p.term, ![id].meaning = p.meaning,
                                    ![id].examples = p.examples,
                                    ![id].is_verified = TRUE,
                                    ![id].embedding =
                                        update_embedding(store[id].embedding,
                                            text_to_embed(p.term, p.meaning, p.examples))]
           IN \E failAt \in MayFail(st1) :
                LET b == build_index(st1, index, slang_ids, index_src, failAt)
                IN /\ Built(b)
                   /\ last' = [Resp("moderate", IF b.raised THEN 500 ELSE 200)
                                  EXCEPT !.action = "update"]
        /\ UNCHANGED <<threshold, dimension, builder, searcher, next_id, votes, search_history, started>>

rebuild_search_index ==
    \E u \in Users :
        /\ started
        /\ get_moderator_user(u)
        /\ \E failAt \in MayFail(store) :
             LET b == build_index(store, index, slang_ids, index_src, failAt)
             IN /\ Built(b)
                /\ last' = Resp("rebuild", IF b.raised THEN 500 ELSE 200)
        /\ UNCHANGED <<threshold, dimension, builder, searcher, next_id, votes, search_history, started>>

-----------------------------------------------------------------------------
(* routers/search.py search_slang_terms.  last.results are the rows the      *)
(* handler puts in the response, in order; the vote_count it attaches to     *)
(* each of them is not modelled.                                             *)

Queries == { <<"a">>, <<"%">>, <<" ">> }

SearchUsers == {"u1"}

Perms(S) == { f \in [1..Cardinality(S) -> S] : Injective(f) }

(* id_to_position.get(id, 999) for id_to_position = {id: idx for idx, id in enumerate(ids)} *)
id_to_position(ids, id) ==
    IF \E i \in 1..Len(ids) : ids[i] = id
    THEN CHOOSE i \in 1..Len(ids) : ids[i] = id /\ \A j \in 1..Len(ids) : ids[j] = id => j <= i
    ELSE 999

(* list.sort(key=...): stable, ascending by key *)
RECURSIVE sort_by_position(_, _)
sort_by_position(terms, ids) ==
    IF terms = <<>> THEN <<>>
    ELSE LET key(t) == id_to_position(ids, t)
             i == CHOOSE i \in 1..Len(terms) :
                    /\ \A j \in 1..Len(terms) : key(terms[i]) <= key(terms[j])
                    /\ \A j \in 1..(i - 1) : key(terms[j]) > key(terms[i])
             rest == [j \in 1..(Len(terms) - 1) |-> IF j < i THEN terms[j] ELSE terms[j + 1]]
         IN <<terms[i]>> \o sort_by_position(rest, ids)

(* A terms_query without the is_verified filter *)
terms_query_unfiltered(st, ids) == {i \in Present(st) : i \in Range(ids)}

(* The rows of terms_query: id in slang_ids and is_verified *)
terms_query(st, ids) == {i \in Verified(st) : i \in Range(ids)}

(* A semantic branch that keeps the order the store returned the rows in *)
hydrate_unsorted(fetched, ids) == fetched

(* The semantic branch: the terms of the response, given the order the store returned the rows in *)
hydrate(fetched, ids) == sort_by_position(fetched, ids)

(* The rows of keyword_query *)
keyword_match(st, query) ==
    {i \in Verified(st) :
        \/ contains(lower(st[i].term), lower(query))
        \/ contains(lower(st[i].meaning), lower(query))}

Take(s, n) == SubSeq(s, 1, Min(n, Len(s)))

keyword_query(st, query, limit) == Take(QueryAll(keyword_match(st, query)), limit)

(* if not results: the keyword branch runs *)
falls_back(results) == results = <<>>

(* A keyword branch that runs whatever the semantic branch found *)
search_results_blended(rows, kwrows) == rows \o kwrows

(* results after both branches: the semantic rows, then the keyword rows when the branch ran *)
search_results(rows, kwrows) ==
    IF falls_back(rows) THEN rows \o kwrows ELSE rows

(* A search that is not saved *)
save_search_skipped(sh, u, query) == sh

(* Line 35 to 42: save search to history *)
save_search(sh, u, query) == Append(sh, [user_id |-> u, query |-> query, age |-> 0])

search_request(queries, semantics, maxHistory) ==
    \E q \in queries, limit \in 1..MaxLimit, semantic \in semantics, u \in SearchUsers,
       failAt \in (IF index.is_none THEN MayFail(store) ELSE {0}) :
        /\ started
        /\ Len(search_history) < maxHistory
        /\ LET b == IF index.is_none
                    THEN build_index(store, index, slang_ids, index_src, failAt)
                    ELSE [store |-> store, index |-> index, slang_ids |-> slang_ids,
                          index_src |-> index_src, raised |-> FALSE]
               query == strip(q)
               req == [Resp("search", 200) EXCEPT !.query = query, !.limit = limit,
                                                  !.semantic = semantic]
           IN /\ Built(b)
              /\ IF b.raised
                 THEN /\ last' = [Resp("search", 500) EXCEPT !.query = q, !.limit = limit,
                                                             !.semantic = semantic]
                      /\ UNCHANGED search_history
                 ELSE IF query = <<>>
                 THEN /\ last' = [Resp("search", 400) EXCEPT !.query = q]
                      /\ UNCHANGED search_history
                 ELSE /\ search_history' = save_search(search_history, u, query)
                      /\ IF semantic
                         THEN \E indices \in Indices(b.index, query, limit) :
                              \E encodeFails \in (IF indices = <<>> THEN {FALSE} ELSE BOOLEAN) :
                                IF encodeFails
                                THEN last' = Resp("search", 500)
                                ELSE LET hits == search(b.index, b.slang_ids, query, indices)
                                         ids == [i \in 1..Len(hits) |-> hits[i].slang_id]
                                     IN \E fetched \in Perms(terms_query(b.store, ids)) :
                                          LET rows == IF hits # <<>> THEN hydrate(fetched, ids) ELSE <<>>
                                          IN last' = [req EXCEPT
                                                !.indices = indices, !.hits = hits, !.rows = rows,
                                                !.keyword = falls_back(rows),
                                                !.results = search_results(rows,
                                                                keyword_query(b.store, query, limit))]
                         ELSE last' = [req EXCEPT
                                          !.keyword = falls_back(<<>>),
                                          !.results = search_results(<<>>,
                                                          keyword_query(b.store, query, limit))]
        /\ UNCHANGED <<threshold, dimension, builder, searcher, next_id, votes, started>>

search_slang_terms == search_request(Queries, BOOLEAN, MaxHistory)

-----------------------------------------------------------------------------
Next ==
    \/ import_terms
    \/ startup_event
    \/ create_slang_term
    \/ update_slang_term
    \/ delete_slang_term
    \/ moderate_approve
    \/ moderate_reject
    \/ moderate_update
    \/ rebuild_search_index
    \/ search_slang_terms

Spec == Init /\ [][Next]_vars

-----------------------------------------------------------------------------
(* EmbeddingService called from two threads.  The service is one module-level *)
(* object with no lock; its methods read and assign self.index and            *)
(* self.slang_ids statement by statement, and a second thread can run between *)
(* any two of them.  (The routers of this repository are coroutines without   *)
(* an await around these calls, so the event loop alone never interleaves     *)
(* them; the steps below are those of callers on distinct threads.)           *)

(* build_index, line 23 to 29: the query, and the whole branch of the empty table *)
build_begin(t) ==
    /\ builder[t].pc = "idle"
    /\ LET slang_terms == QueryAll(Verified(store))
       IN IF slang_terms = <<>>
          THEN /\ index' = IndexFlatL2(<<>>)
               /\ slang_ids' = <<>>
               /\ index_src' = <<>>
               /\ builder' = [builder EXCEPT ![t] = ReturnedBuilder(<<>>)]
               /\ searcher' = Completed(Pair(IndexFlatL2(<<>>), <<>>))
          ELSE /\ builder' = [builder EXCEPT ![t] = [IdleBuilder EXCEPT !.pc = "reset",
                                                                       !.slang_terms = slang_terms]]
               /\ UNCHANGED <<index, slang_ids, index_src, searcher>>
    /\ UNCHANGED <<threshold, dimension, store, next_id, votes, search_history, started, last>>

(* build_index, line 32 and 33: embeddings = [], self.slang_ids = [] *)
build_reset(t) ==
    /\ builder[t].pc = "reset"
    /\ slang_ids' = <<>>
    /\ builder' = [builder EXCEPT ![t].pc = "loop", ![t].i = 1, ![t].embeddings = <<>>]
    /\ UNCHANGED <<threshold, dimension, store, next_id, votes, search_history, index, index_src,
                   started, last, searcher>>

(* build_index, line 35 to 52: one turn of the loop *)
build_iter(t) ==
    /\ builder[t].pc = "loop"
    /\ builder[t].i <= Len(builder[t].slang_terms)
    /\ LET id == builder[t].slang_terms[builder[t].i]
           term == store[id]
           embedding == IF term.embedding # NoEmbedding THEN term.embedding
                        ELSE encode(text_to_embed(term.term, term.meaning, term.examples))
       IN /\ store' = [store EXCEPT ![id].embedding = embedding]
          /\ slang_ids' = Append(slang_ids, id)
          /\ builder' = [builder EXCEPT ![t].i = @ + 1, ![t].embeddings = Append(@, embedding)]
    /\ UNCHANGED <<threshold, dimension, next_id, votes, search_history, index, index_src, started,
                   last, searcher>>

(* build_index, line 45: model.encode raises and the call ends there *)
build_raise(t) ==
    /\ builder[t].pc = "loop"
    /\ builder[t].i <= Len(builder[t].slang_terms)
    /\ store[builder[t].slang_terms[builder[t].i]].embedding = NoEmbedding
    /\ builder' = [builder EXCEPT ![t] = IdleBuilder]
    /\ UNCHANGED <<threshold, dimension, store, next_id, votes, search_history, index, slang_ids,
                   index_src, started, last, searcher>>

(* build_index, line 56: self.index = faiss.IndexFlatL2(self.dimension) *)
build_new_index(t) ==
    /\ builder[t].pc = "loop"
    /\ builder[t].i > Len(builder[t].slang_terms)
    /\ index' = IndexFlatL2(<<>>)
    /\ index_src' = <<>>
    /\ builder' = [builder EXCEPT ![t].pc = "add"]
    /\ UNCHANGED <<threshold, dimension, store, next_id, votes, search_history, slang_ids, started,
                   last, searcher>>

(* build_index, line 57: self.index.add(embeddings_np), and the return *)
build_add(t) ==
    /\ builder[t].pc = "add"
    /\ index' = IndexFlatL2(index.vecs \o builder[t].embeddings)
    /\ index_src' = index_src \o builder[t].slang_terms
    /\ builder' = [builder EXCEPT ![t] = ReturnedBuilder(builder[t].slang_terms)]
    /\ searcher' = Completed(Pair(index', slang_ids))
    /\ UNCHANGED <<threshold, dimension, store, next_id, votes, search_history, slang_ids, started, last>>

(* The queries search is called with: search_slang_terms passes the stripped, non-empty ones *)
SearchQueries == {strip(q) : q \in Queries} \ {<<>>}

(* search, line 61 and 62: the guard *)
search_begin ==
    \E query \in SearchQueries, limit \in 1..MaxLimit :
        /\ searcher.pc = "idle"
        /\ searcher' = [searcher EXCEPT
                           !.pc = IF index.is_none \/ ntotal(index) = 0 THEN "done" ELSE "search",
                           !.query = query, !.limit = limit,
                           !.pairs = {searcher.complete}]
        /\ UNCHANGED <<threshold, dimension, store, next_id, votes, search_history, index, slang_ids, index_src, started,
                       last, builder>>

(* search, line 65 to 72: encode, self.index.search, results = [] *)
search_index ==
    /\ searcher.pc = "search"
    /\ \E indices \in faiss_search(index.vecs, encode(searcher.query), searcher.limit) :
          searcher' = [searcher EXCEPT !.pc = "loop", !.indices = indices, !.vecs = index.vecs,
                                       !.i = 1]
    /\ UNCHANGED <<threshold, dimension, store, next_id, votes, search_history, index, slang_ids, index_src, started,
                   last, builder>>

(* search, line 73 to 80: one turn of the loop *)
search_iter ==
    /\ searcher.pc = "loop"
    /\ searcher.i <= Len(searcher.indices)
    /\ LET idx == searcher.indices[searcher.i]
           sim == similarity(L2(searcher.vecs[idx], encode(searcher.query)))
       IN searcher' = [searcher EXCEPT
                          !.i = @ + 1,
                          !.results = IF idx # 0 /\ idx <= Len(slang_ids) /\ passes(sim)
                                      THEN Append(@, [slang_id |-> slang_ids[idx], similarity |-> sim])
                                      ELSE @]
    /\ UNCHANGED <<threshold, dimension, store, next_id, votes, search_history, index, slang_ids, index_src, started,
                   last, builder>>

(* search, line 82: return results, once the loop is over *)
search_end ==
    /\ searcher.pc = "loop"
    /\ searcher.i > Len(searcher.indices)
    /\ searcher' = [searcher EXCEPT !.pc = "done"]
    /\ UNCHANGED <<threshold, dimension, store, next_id, votes, search_history, index, slang_ids, index_src, started,
                   last, builder>>

(* The caller has the result *)
search_return ==
    /\ searcher.pc = "done"
    /\ searcher' = IdleSearcher(searcher.complete)
    /\ UNCHANGED <<threshold, dimension, store, next_id, votes, search_history, index, slang_ids, index_src, started,
                   last, builder>>

(* One thread rebuilds while another searches *)
OneBuilder == {"t1"}

NextThreads ==
    \/ import_terms
    \/ \E t \in OneBuilder : build_begin(t)
    \/ \E t \in OneBuilder : build_reset(t)
    \/ \E t \in OneBuilder : build_iter(t)
    \/ \E t \in OneBuilder : build_raise(t)
    \/ \E t \in OneBuilder : build_new_index(t)
    \/ \E t \in OneBuilder : build_add(t)
    \/ search_begin
    \/ search_index
    \/ search_iter
    \/ search_end
    \/ search_return

SpecThreads == Init /\ [][NextThreads]_vars

(* Two threads rebuild at the same time *)
NextRebuilds ==
    \/ import_terms
    \/ \E t \in Builders : build_begin(t)
    \/ \E t \in Builders : build_reset(t)
    \/ \E t \in Builders : build_iter(t)
    \/ \E t \in Builders : build_raise(t)
    \/ \E t \in Builders : build_new_index(t)
    \/ \E t \in Builders : build_add(t)

SpecRebuilds == Init /\ [][NextRebuilds]_vars

-----------------------------------------------------------------------------
(* EmbeddingService on its own: the service as config.py configures it from  *)
(* the environment, and direct calls of its methods on a database that the   *)
(* import script fills.  last.status is 200 when the call returned and 500   *)
(* when it raised.                                                           *)

(* float(os.getenv("SIMILARITY_THRESHOLD", "0.7")): the default and -1.0 *)
Thresholds == {SIMILARITY_THRESHOLD, -SimScale}

(* int(os.getenv("EMBEDDINGS_DIMENSION", "384")): the model's output length and another *)
Dimensions == {EMBEDDINGS_DIMENSION, EMBEDDINGS_DIMENSION + 1}

InitConfigured ==
    /\ threshold \in Thresholds
    /\ dimension \in Dimensions
    /\ Constructed

(* The cached vector of every row *)
Embeddings(st) == [i \in Ids |-> st[i].embedding]

(* embedding_service.build_index(db) *)
call_build_index ==
    \E failAt \in MayFail(store) :
        LET b == build_index(store, index, slang_ids, index_src, failAt)
        IN /\ Built(b)
           /\ last' = [Resp("build_index", IF b.raised THEN 500 ELSE 200) EXCEPT
                          !.action = IF /\ last.op = "build_index"
                                        /\ last.failed = b.failed
                                        /\ last.status = (IF b.raised THEN 500 ELSE 200)
                                     THEN "again" ELSE "",
                          !.before = Embeddings(store),
                          !.encoded = b.encoded,
                          !.failed = b.failed]
           /\ UNCHANGED <<threshold, dimension, builder, searcher, next_id, votes,
                          search_history, started>>

(* The texts embedding_service.search is called with *)
ServiceQueries == { <<"a">>, <<"b", "b">> }

(* embedding_service.search(query, limit) *)
call_search ==
    \E query \in ServiceQueries, limit \in 1..MaxLimit :
      \E indices \in Indices(index, query, limit) :
        \E encodeFails \in (IF indices = <<>> THEN {FALSE} ELSE BOOLEAN) :
            /\ last' = IF encodeFails
                       THEN [Resp("service_search", 500) EXCEPT !.query = query, !.limit = limit]
                       ELSE [Resp("service_search", 200) EXCEPT
                                !.query = query, !.limit = limit, !.indices = indices,
                                !.hits = search(index, slang_ids, query, indices)]
            /\ UNCHANGED <<threshold, dimension, builder, searcher, store, next_id, votes,
                           search_history, index, slang_ids, index_src, started>>

(* A comparison of the term with the text that minds the case *)
is_self_exact(term, term_text) == term = term_text

(* Line 105, skip self: term.term.lower() == term_text.lower() *)
is_self(term, term_text) == lower(term) = lower(term_text)

(* The loop of find_similar_terms over indices[0], from position i on; acc is similar_terms *)
RECURSIVE similar_loop(_, _, _, _, _, _, _)
similar_loop(indices, i, vecs, ids, st, req, acc) ==
    IF i > Len(indices) THEN acc
    ELSE LET idx == indices[i]
             next == similar_loop(indices, i + 1, vecs, ids, st, req, acc)
         IN IF idx # 0 /\ idx <= Len(ids)
            THEN LET slang_id == ids[idx]
                     term == st[slang_id]
                     sim == similarity(L2(vecs[idx], encode(req.term_text)))
                     similar_terms == Append(acc, [id |-> slang_id, term |-> term.term,
                                                   similarity |-> sim])
                 IN IF term.present /\ ~is_self(term.term, req.term_text) /\ passes(sim)
                    THEN IF Len(similar_terms) >= req.limit
                         THEN similar_terms
                         ELSE similar_loop(indices, i + 1, vecs, ids, st, req, similar_terms)
                    ELSE next
            ELSE next

(* EmbeddingService.find_similar_terms(term_text, db, limit), given the row of indices *)
(* faiss returned for limit + 1                                                        *)
find_similar_terms(ix, ids, st, term_text, limit, indices) ==
    IF ix.is_none \/ ntotal(ix) = 0 THEN <<>>
    ELSE similar_loop(indices, 1, ix.vecs, ids, st,
                      [term_text |-> term_text, limit |-> limit], <<>>)

(* The texts find_similar_terms is called with *)
SimilarTexts == { <<"a">>, <<"a", "B">> }

(* embedding_service.find_similar_terms(term_text, db, limit) *)
call_find_similar_terms ==
    \E term_text \in SimilarTexts, limit \in 1..MaxLimit :
      \E indices \in Indices(index, term_text, limit + 1) :
        \E encodeFails \in (IF indices = <<>> THEN {FALSE} ELSE BOOLEAN) :
            /\ last' = IF encodeFails
                       THEN [Resp("find_similar", 500) EXCEPT !.query = term_text, !.limit = limit]
                       ELSE [Resp("find_similar", 200) EXCEPT
                                !.query = term_text, !.limit = limit, !.indices = indices,
                                !.hits = find_similar_terms(index, slang_ids, store, term_text,
                                                            limit, indices)]
            /\ UNCHANGED <<threshold, dimension, builder, searcher, store, next_id, votes,
                           search_history, index, slang_ids, index_src, started>>

(* The first loop of batch_index_update over terms: every term gets the vector of its text *)
RECURSIVE recompute(_, _)
recompute(st, terms) ==
    IF terms = <<>> THEN st
    ELSE LET id == Head(terms)
             term == st[id]
         IN recompute([st EXCEPT ![id].embedding =
                                    encode(text_to_embed(term.term, term.meaning, term.examples))],
                      Tail(terms))

(* The terms the first loop of batch_index_update(db, term_ids) goes over *)
batch_terms(st, term_ids) == QueryAll({i \in Verified(st) : i \in term_ids})

(* embedding_service.batch_index_update(db, term_ids); an empty term_ids is also None. *)
(* failFirst is the term whose encode raises in the first loop (0: none), before the   *)
(* commit, so that the database keeps what it had.                                     *)
call_batch_index_update ==
    \E term_ids \in SUBSET Ids :
      \E failFirst \in {0} \cup Range(batch_terms(store, term_ids)) :
        LET terms == batch_terms(store, term_ids)
            called == IF failFirst = 0 THEN terms
                      ELSE SubSeq(terms, 1, CHOOSE k \in 1..Len(terms) : terms[k] = failFirst)
            req == [Resp("batch_index_update", 500) EXCEPT
                       !.ids = SeqOfSet(term_ids), !.before = Embeddings(store)]
        IN /\ IF failFirst # 0
              THEN /\ last' = [req EXCEPT !.encoded = called, !.failed = failFirst]
                   /\ UNCHANGED <<store, index, slang_ids, index_src>>
              ELSE LET st1 == recompute(store, terms)
                   IN \E failAt \in MayFail(st1) :
                        LET b == build_index(st1, index, slang_ids, index_src, failAt)
                        IN /\ Built(b)
                           /\ last' = [req EXCEPT
                                          !.status = IF b.raised THEN 500 ELSE 200,
                                          !.encoded = called \o b.encoded,
                                          !.failed = b.failed]
           /\ UNCHANGED <<threshold, dimension, builder, searcher, next_id, votes,
                          search_history, started>>

NextService ==
    \/ import_terms
    \/ call_build_index
    \/ call_search
    \/ call_find_similar_terms
    \/ call_batch_index_update

SpecService == InitConfigured /\ [][NextService]_vars

-----------------------------------------------------------------------------
(* routers/community.py vote_on_slang and routers/search.py                  *)
(* get_trending_terms, on a database that the import script,                 *)
(* create_slang_term and search_slang_terms fill.  Time is the age of the    *)
(* rows: a day that passes makes every vote and every search a day older.    *)
(* SlangTerm.votes.created_at and SlangTerm.votes.vote in the queries are    *)
(* read as the columns of the joined slang_votes rows.                       *)

MaxDays == 1
MaxSearches == 2
MaxVotes == 2

(* Rows older than the longest window are outside every window alike *)
MaxAge == MaxDays + 1

(* schemas.py VoteCreate: vote = Field(..., ge=-1, le=1) *)
VoteValues == {-1, 0, 1}

(* A lookup that never finds the vote there is *)
existing_votes_none(vs, u, id) == {}

(* The positions of the votes of user u on entry id *)
existing_votes(vs, u, id) ==
    {k \in 1..Len(vs) : vs[k].slang_id = id /\ vs[k].user_id = u}

(* db.delete(row k) *)
DeleteRow(rows, k) ==
    [j \in 1..(Len(rows) - 1) |-> IF j < k THEN rows[j] ELSE rows[j + 1]]

(* The answer to a vote of 0 is VoteResponse(id=0, ..., created_at=None), *)
(* which the schema refuses (created_at: datetime), after the commit      *)
vote_status(v) == IF v = 0 THEN 500 ELSE 200

(* The 404 and the 403 of vote_on_slang change nothing: they are the guard *)
vote_request(users, values) ==
    \E u \in users, id \in Ids, v \in values :
        /\ store[id].present
        /\ store[id].is_verified
        /\ LET existing == existing_votes(votes, u, id)
           IN IF existing # {}
              THEN LET existing_vote == CHOOSE k \in existing : \A j \in existing : k <= j
                   IN IF v = 0
                      THEN votes' = DeleteRow(votes, existing_vote)
                      ELSE votes' = [votes EXCEPT ![existing_vote].vote = v]
              ELSE IF v = 0
                   THEN votes' = votes
                   ELSE /\ Len(votes) < MaxVotes
                        /\ votes' = Append(votes, [slang_id |-> id, user_id |-> u,
                                                   vote |-> v, age |-> 0])
        /\ last' = [Resp("vote", vote_status(v)) EXCEPT !.user = u, !.id = id, !.vote = v]
        /\ UNCHANGED <<threshold, dimension, builder, searcher, store, next_id, search_history,
                       index, slang_ids, index_src, started>>

vote_on_slang == vote_request(Users, VoteValues)

(* A day goes by: datetime.now() is a day later for every row there is *)
Older(rows) ==
    [k \in 1..Len(rows) |-> [rows[k] EXCEPT !.age = Min(@ + 1, MaxAge)]]

day_passes ==
    /\ \/ \E k \in 1..Len(votes) : votes[k].age < MaxAge
       \/ \E k \in 1..Len(search_history) : search_history[k].age < MaxAge
    /\ votes' = Older(votes)
    /\ search_history' = Older(search_history)
    /\ last' = Resp("day", 0)
    /\ UNCHANGED <<threshold, dimension, builder, searcher, store, next_id,
                   index, slang_ids, index_src, started>>

(* created_at >= recent_date, for recent_date = now - timedelta(days=days) *)
recent(row, days) == row.age <= days

(* A Python dict of counts: keys in insertion order, val the count of a key *)
EmptyDict == [keys |-> <<>>, val |-> [i \in Ids |-> 0]]

(* d[k] = d.get(k, 0) + n *)
DictAdd(d, k, n) ==
    [keys |-> IF k \in Range(d.keys) THEN d.keys ELSE Append(d.keys, k),
     val |-> [d.val EXCEPT ![k] = @ + n]]

(* recent_votes_subquery: for the verified terms that have recent votes, the number of them *)
recent_vote_count(st, vs, days, id) ==
    Cardinality({k \in 1..Len(vs) : vs[k].slang_id = id /\ recent(vs[k], days)})

recent_votes(st, vs, days) ==
    QueryAll({i \in Verified(st) : recent_vote_count(st, vs, days, i) > 0})

(* recent_searches: the distinct recent queries and how many times each was made *)
recent_queries(sh, days) ==
    {sh[k].query : k \in {j \in 1..Len(sh) : recent(sh[j], days)}}

query_count(sh, days, q) ==
    Cardinality({k \in 1..Len(sh) : sh[k].query = q /\ recent(sh[k], days)})

(* .order_by(func.count().desc()): the orders the database may give the groups in *)
recent_search_orders(sh, days) ==
    {o \in Perms(recent_queries(sh, days)) :
        \A i, j \in 1..Len(o) : i < j => query_count(sh, days, o[i]) >= query_count(sh, days, o[j])}

(* func.lower(SlangTerm.term).contains(func.lower(search_query)) *)
term_matches(term, search_query) == contains(lower(term), lower(search_query))

(* Line 150 to 154: the terms of one search query get its count *)
RECURSIVE count_terms(_, _, _)
count_terms(d, terms, count) ==
    IF terms = <<>> THEN d
    ELSE count_terms(DictAdd(d, Head(terms), count), Tail(terms), count)

(* Line 149 to 154: search_counts, over recent_searches in the order given *)
RECURSIVE search_counts(_, _, _, _, _)
search_counts(d, st, sh, days, searches) ==
    IF searches = <<>> THEN d
    ELSE LET search_query == Head(searches)
             terms == QueryAll({i \in Verified(st) : term_matches(st[i].term, search_query)})
         IN search_counts(count_terms(d, terms, query_count(sh, days, search_query)),
                          st, sh, days, Tail(searches))

(* Line 160 and 161: vote-based scores *)
RECURSIVE add_votes(_, _, _, _, _)
add_votes(d, st, vs, days, term_ids) ==
    IF term_ids = <<>> THEN d
    ELSE add_votes(DictAdd(d, Head(term_ids), recent_vote_count(st, vs, days, Head(term_ids)) * 2),
                   st, vs, days, Tail(term_ids))

(* Line 164 and 165: search-based scores, in the order of search_counts.items() *)
RECURSIVE add_searches(_, _, _)
add_searches(d, counts, term_ids) ==
    IF term_ids = <<>> THEN d
    ELSE add_searches(DictAdd(d, Head(term_ids), counts.val[Head(term_ids)]), counts, Tail(term_ids))

(* Line 138 to 165 *)
trending_scores(st, vs, sh, days, searches) ==
    LET counts == search_counts(EmptyDict, st, sh, days, Take(searches, 100))
        voted == add_votes(EmptyDict, st, vs, days, recent_votes(st, vs, days))
    IN add_searches(voted, counts, counts.keys)

(* A sort that puts the lowest score first *)
RECURSIVE sorted_ascending(_, _)
sorted_ascending(ids, score) ==
    IF ids = <<>> THEN <<>>
    ELSE LET i == CHOOSE i \in 1..Len(ids) :
                    /\ \A j \in 1..Len(ids) : score[ids[i]] <= score[ids[j]]
                    /\ \A j \in 1..(i - 1) : score[ids[j]] > score[ids[i]]
         IN <<ids[i]>> \o sorted_ascending(DeleteRow(ids, i), score)

(* sorted(ids, key=score, reverse=True) and list.sort(key=score, reverse=True): *)
(* highest score first, equal scores in the order they came in                *)
RECURSIVE sorted_reverse(_, _)
sorted_reverse(ids, score) ==
    IF ids = <<>> THEN <<>>
    ELSE LET i == CHOOSE i \in 1..Len(ids) :
                    /\ \A j \in 1..Len(ids) : score[ids[i]] >= score[ids[j]]
                    /\ \A j \in 1..(i - 1) : score[ids[j]] < score[ids[i]]
         IN <<ids[i]>> \o sorted_reverse(DeleteRow(ids, i), score)

(* Line 168 to 172 *)
top_trending_ids(d, limit) == Take(sorted_reverse(d.keys, d.val), limit)

get_trending_terms ==
    \E limit \in 1..MaxLimit, days \in 1..MaxDays :
    \E searches \in recent_search_orders(search_history, days) :
        LET d == trending_scores(store, votes, search_history, days, searches)
            top == top_trending_ids(d, limit)
        IN \E terms \in Perms({i \in Present(store) : i \in Range(top)}) :
              /\ last' = [Resp("trending", 200) EXCEPT
                             !.limit = limit, !.days = days, !.scores = d.val,
                             !.ids = top, !.results = sorted_reverse(terms, d.val)]
              /\ UNCHANGED <<threshold, dimension, builder, searcher, store, next_id, votes,
                             search_history, index, slang_ids, index_src, started>>

(* The queries of the searches that trending counts *)
TrendingQueries == { <<"b">>, <<"a", "b">> }

(* The votes that trending counts: it counts rows, whatever their value *)
TrendingVoters == {"u1"}

TrendingVotes == {0, 1}

NextTrending ==
    \/ import_terms
    \/ startup_event
    \/ search_request(TrendingQueries, {FALSE}, MaxSearches)
    \/ vote_request(TrendingVoters, TrendingVotes)
    \/ day_passes
    \/ get_trending_terms

SpecTrending == Init /\ [][NextTrending]_vars

(* Submissions, edits and votes *)
NextCommunity ==
    \/ startup_event
    \/ create_slang_term
    \/ update_slang_term
    \/ vote_on_slang

SpecCommunity == Init /\ [][NextCommunity]_vars

-----------------------------------------------------------------------------
(* Properties *)

Searched == last.op = "search" /\ last.status = 200

HitIds == [i \in 1..Len(last.hits) |-> last.hits[i].slang_id]

(* The last build that touched the service ran to its end *)
Aligned == slang_ids = index_src

(* C1: in every state of the service between calls, build_index calls that   *)
(* raised part-way included, slang_ids is as long as the index and position  *)
(* i of the index holds the vector added for the entry slang_ids[i].         *)
C1_IdsParallelToIndex ==
    /\ Len(slang_ids) = ntotal(index)
    /\ \A i \in 1..Len(slang_ids) : slang_ids[i] = index_src[i]

(* C2: every entry search_slang_terms returns is verified in the store at    *)
(* the time of the call, on the semantic and on the keyword path, also when  *)
(* the index is stale.                                                       *)
C2_OnlyVerifiedReturned ==
    Searched => \A i \in 1..Len(last.results) : last.results[i] \in Verified(store)

C2_Witness ==
    /\ Searched
    /\ ~last.keyword
    /\ last.results # <<>>
    /\ \E k \in 1..Len(last.hits) : last.hits[k].slang_id \notin Verified(store)

(* C3: once an approve, a reject, a delete, a content update or the startup  *)
(* build has completed, slang_ids holds exactly the ids of the entries that  *)
(* are verified in the store.                                                *)
C3_IndexHoldsVerified ==
    (last.op \in {"startup", "update", "delete", "moderate"} /\ last.status \in {200, 204})
        => /\ Range(slang_ids) = Verified(store)
           /\ Len(slang_ids) = Cardinality(Verified(store))

(* The results search can return from one complete pair *)
ResultsOf(pair, query, limit) ==
    {search(pair.index, pair.slang_ids, query, indices) :
        indices \in Indices(pair.index, query, limit)}

(* C4: a search that runs concurrently with a rebuild never observes a       *)
(* half-built index: what it returns is what it would return from the        *)
(* complete old pair or from the complete new pair (index, slang_ids).       *)
C4_NoHalfBuiltIndex ==
    searcher.pc = "done"
        => \E pair \in searcher.pairs :
              searcher.results \in ResultsOf(pair, searcher.query, searcher.limit)

(* C5: on the semantic path the entries of the response are in the order in  *)
(* which their ids appear in the ranked result of EmbeddingService.search,   *)
(* whatever order the store returned the rows in.                            *)
C5_RankOrderPreserved ==
    (Searched /\ ~last.keyword)
        => last.results = SelectSeq(HitIds, LAMBDA id : id \in Range(last.results))

C5_Witness ==
    /\ Searched
    /\ ~last.keyword
    /\ Len(last.results) >= 2
    /\ last.results[1] > last.results[2]

IsSubstring(q, str) ==
    \E i \in 0..(Len(str) - Len(q)) : SubSeq(str, i + 1, i + Len(q)) = q

KeywordSearch(st, query, limit) ==
    Take(SeqOfSet({i \in Verified(st) :
                      \/ IsSubstring(lower(query), lower(st[i].term))
                      \/ IsSubstring(lower(query), lower(st[i].meaning))}),
         limit)

(* C6: when the semantic step yields no results, search_slang_terms returns  *)
(* exactly the keyword search: the verified entries whose term or meaning    *)
(* contains the query as a case-insensitive substring, in the store's order, *)
(* capped at limit.                                                          *)
C6_FallbackIsSubstringSearch ==
    (Searched /\ last.rows = <<>>)
        => last.results = KeywordSearch(store, last.query, last.limit)

(* C7: a response is made either of semantic hits only or of keyword hits    *)
(* only: the keyword path runs iff the semantic path produced no entries,    *)
(* and nothing is added to a non-empty semantic result.                      *)
C7_NoBlending ==
    Searched =>
        /\ last.keyword <=> (last.rows = <<>>)
        /\ last.rows # <<>> => \A i \in 1..Len(last.results) : last.results[i] \in Range(HitIds)

C7_Witness ==
    /\ Searched
    /\ last.rows # <<>>
    /\ \E i \in keyword_match(store, last.query) : i \notin Range(last.results)

(* C8: a query issued after a completed rebuild of the entry set E returns   *)
(* no identifier outside E and at most limit identifiers, for limit >= 1.    *)
C8_WithinEntrySetAndLimit ==
    (Searched /\ Aligned /\ last.limit >= 1)
        => /\ Len(last.hits) <= last.limit
           /\ Range(HitIds) \subseteq Range(index_src)
           /\ Len(last.results) <= last.limit
           /\ ~last.keyword => Range(last.results) \subseteq Range(index_src)

C8_Witness ==
    /\ Searched
    /\ Aligned
    /\ ntotal(index) > last.limit
    /\ Len(last.hits) = last.limit
    /\ Len(last.results) = last.limit

(* Distance and similarity of index position p to the query of the last search *)
DistAt(p) == L2(index.vecs[p], encode(last.query))

(* C9: EmbeddingService.search with limit k returns entries of the k indexed *)
(* vectors nearest to the query by squared L2 distance, nearest first.       *)
C9_NearestFirst ==
    (Searched /\ last.semantic) =>
        /\ \A i, j \in 1..Len(last.hits) :
              i < j => last.hits[i].similarity >= last.hits[j].similarity
        /\ \A i \in 1..Len(last.hits) :
              \E p \in 1..ntotal(index) :
                 /\ index_src[p] = last.hits[i].slang_id
                 /\ SimScale - DistAt(p) = last.hits[i].similarity
                 /\ Cardinality({r \in 1..ntotal(index) : DistAt(r) < DistAt(p)}) < last.limit

(* C10: the threshold filter is inclusive: a hit whose similarity equals the *)
(* threshold is in the result of EmbeddingService.search, one below is not.  *)
C10_ThresholdInclusive ==
    (Searched /\ last.semantic) =>
        \A k \in 1..Len(last.indices) :
            LET idx == last.indices[k]
            IN (idx # 0 /\ idx <= Len(slang_ids)) =>
                  ([slang_id |-> slang_ids[idx], similarity |-> SimScale - DistAt(idx)]
                       \in Range(last.hits)
                   <=> SimScale - DistAt(idx) >= SIMILARITY_THRESHOLD)

C10_Witness ==
    /\ Searched
    /\ last.semantic
    /\ \E k \in 1..Len(last.hits) : last.hits[k].similarity = SIMILARITY_THRESHOLD
    /\ \E k \in 1..Len(last.indices) :
          /\ last.indices[k] # 0
          /\ last.indices[k] <= Len(slang_ids)
          /\ SimScale - DistAt(last.indices[k]) < SIMILARITY_THRESHOLD

ServiceSearched == last.op = "service_search" /\ last.status = 200

(* C11: every similarity score that EmbeddingService.search returns lies in  *)
(* [0, 1], for every query, every indexed vector and every configured       *)
(* threshold.                                                                *)
C11_SimilarityInUnitRange ==
    ServiceSearched =>
        \A k \in 1..Len(last.hits) :
            0 <= last.hits[k].similarity /\ last.hits[k].similarity <= SimScale

(* C11, amended: every similarity score that EmbeddingService.search returns *)
(* lies between the configured threshold and 1; it lies in [0, 1] when the   *)
(* configured threshold is not negative.                                     *)
C11_SimilarityFromThresholdToOne ==
    ServiceSearched =>
        \A k \in 1..Len(last.hits) :
            /\ threshold <= last.hits[k].similarity
            /\ last.hits[k].similarity <= SimScale
            /\ threshold >= 0 => 0 <= last.hits[k].similarity

C11_Witness ==
    /\ ServiceSearched
    /\ threshold < 0
    /\ \E k \in 1..Len(last.hits) : last.hits[k].similarity < 0

(* C12: building the index from an empty set of verified entries is not an   *)
(* error and leaves an index of zero vectors and an empty identifier list; a *)
(* query on that index, and a query before any index was built, returns an   *)
(* empty sequence without error.                                             *)
C12_EmptyIndexIsNotAnError ==
    /\ (last.op = "build_index" /\ Verified(store) = {})
          => /\ last.status = 200
             /\ ~index.is_none
             /\ ntotal(index) = 0
             /\ slang_ids = <<>>
    /\ (last.op = "service_search" /\ (index.is_none \/ ntotal(index) = 0))
          => /\ last.status = 200
             /\ last.hits = <<>>

C12_Witness ==
    /\ ServiceSearched
    /\ Verified(store) = {}
    /\ ~index.is_none
    /\ ntotal(index) = 0
    /\ last.hits = <<>>

IsBlank(q) == \A i \in 1..Len(q) : q[i] = " "

C14_DimensionMismatchReported ==
    /\ (last.op = "service_search" /\ Len(encode(last.query)) # dimension)
          => last.status = 500
    /\ (last.op = "build_index"
          /\ \E i \in Verified(store) :
                last.before[i] # NoEmbedding /\ Len(last.before[i]) # dimension)
          => /\ last.status = 500
             /\ \A p \in 1..ntotal(index) : Len(index.vecs[p]) = dimension

(* The service is configured with the length of the vectors its model gives *)
DimensionFits == dimension = Len(encode(<<>>))

(* C15: if the Embedder fails for one verified entry during build_index, the *)
(* build still completes: that entry is left out of the new index, every     *)
(* other verified entry is in it, and the caller sees no failure.            *)
C15_EmbedderFailureNotFatal ==
    (last.op = "build_index" /\ last.failed # 0 /\ DimensionFits)
        => /\ last.status = 200
           /\ slang_ids = SeqOfSet(Verified(store) \ {last.failed})
           /\ index_src = slang_ids
           /\ ntotal(index) = Len(slang_ids)

Occurrences(seq, x) == Cardinality({k \in 1..Len(seq) : seq[k] = x})

TextVector(row) == encode(text_to_embed(row.term, row.meaning, row.examples))

(* C16: during one build_index run, each verified entry without a cached     *)
(* vector causes exactly one Embedder call and has the computed vector       *)
(* written back to the store, and each verified entry with a cached vector   *)
(* causes no Embedder call and keeps its cached vector.                      *)
C16_OneEmbedderCallPerUncachedEntry ==
    (last.op = "build_index" /\ DimensionFits)
        => \A i \in Verified(store) \ {last.failed} :
              IF last.before[i] = NoEmbedding
              THEN /\ Occurrences(last.encoded, i) = 1
                   /\ store[i].embedding = TextVector(store[i])
              ELSE /\ Occurrences(last.encoded, i) = 0
                   /\ store[i].embedding = last.before[i]

(* C17: after any sequence of create, owner update, moderator update,        *)
(* approve and rebuild operations, every entry that has a cached vector has  *)
(* the vector the Embedder gives for its current text: term, meaning and the *)
(* first two examples.                                                       *)
C17_CachedVectorIsFresh ==
    \A i \in Present(store) :
        store[i].embedding # NoEmbedding => store[i].embedding = TextVector(store[i])

C17_Witness ==
    /\ last.op = "update"
    /\ last.status = 200
    /\ \E p \in 1..Len(index_src) :
          LET i == index_src[p]
          IN /\ store[i].present
             /\ store[i].embedding # NoEmbedding
             /\ store[i].embedding # index.vecs[p]

(* C18: batch_index_update(ids) recomputes the cached vector of every entry  *)
(* in ids from its current text, also when one is cached already, and then   *)
(* rebuilds in full, so that afterwards the index holds the recomputed       *)
(* vectors.                                                                  *)
C18_BatchUpdateRecomputesAndRebuilds ==
    (last.op = "batch_index_update" /\ DimensionFits)
        => /\ \A i \in Range(last.ids) \cap Present(store) :
                 /\ Occurrences(last.encoded, i) >= 1
                 /\ store[i].embedding = TextVector(store[i])
                 /\ store[i].is_verified =>
                       \E p \in 1..ntotal(index) :
                          index_src[p] = i /\ index.vecs[p] = store[i].embedding
           /\ slang_ids = SeqOfSet(Verified(store))
           /\ index_src = slang_ids

C20_ConcurrentRebuildsAsOne ==
    ( /\ \A t \in Builders : builder[t].pc = "idle" /\ builder[t].done
      /\ \A t, u \in Builders : builder[t].slang_terms = builder[u].slang_terms )
        => \A t \in Builders :
              /\ slang_ids = builder[t].slang_terms
              /\ index_src = slang_ids
              /\ ntotal(index) = Len(slang_ids)

(* get_trending_terms has answered *)
Trended == last.op = "trending" /\ last.status = 200

(* The recent searches whose text, ignoring case, is a substring of the term *)
(* of entry i or contains it                                                 *)
RelatedSearches(i, days) ==
    {k \in 1..Len(search_history) :
        /\ recent(search_history[k], days)
        /\ \/ IsSubstring(lower(search_history[k].query), lower(store[i].term))
           \/ IsSubstring(lower(store[i].term), lower(search_history[k].query))}

(* C21: the trending score of an entry is twice the number of votes cast on  *)
(* it within the window plus the number of searches within the window whose  *)
(* text is a substring of the entry's term or contains it.                   *)
C21_TrendingScore ==
    Trended =>
        \A i \in Verified(store) :
            last.scores[i] = 2 * recent_vote_count(store, votes, last.days, i)
                             + Cardinality(RelatedSearches(i, last.days))

(* The entries that have a trending score *)
Scored == {i \in Ids : last.scores[i] > 0}

(* C22: entries with equal trending score appear in ascending identifier     *)
(* order, and when limit cuts through a tie the entries with the lower       *)
(* identifiers are the ones returned; the list is therefore the same on      *)
(* every call for the same votes and searches.                               *)
C22_TiesByAscendingId ==
    Trended =>
        /\ \A i, j \in 1..Len(last.results) :
              (i < j /\ last.scores[last.results[i]] = last.scores[last.results[j]])
                  => last.results[i] < last.results[j]
        /\ \A x \in Scored \ Range(last.results) :
              \A i \in 1..Len(last.results) :
                  last.scores[x] = last.scores[last.results[i]] => last.results[i] < x

(* C23: get_trending_terms returns only entries whose score is not zero,     *)
(* highest score first, and the cut to limit comes after the sort: as many   *)
(* entries as limit allows are returned and no entry left out has a higher   *)
(* score than one that is returned.                                          *)
C23_TopScoresDescending ==
    Trended =>
        /\ \A i \in 1..Len(last.results) : last.scores[last.results[i]] > 0
        /\ \A i, j \in 1..Len(last.results) :
              i < j => last.scores[last.results[i]] >= last.scores[last.results[j]]
        /\ Len(last.results) = Min(last.limit, Cardinality(Scored))
        /\ \A x \in Scored \ Range(last.results) :
              \A i \in 1..Len(last.results) : last.scores[x] <= last.scores[last.results[i]]

C23_Witness ==
    /\ Trended
    /\ Cardinality(Scored) > last.limit
    /\ \E x \in Scored \ Range(last.results) :
          /\ x < last.results[1]
          /\ last.scores[x] < last.scores[last.results[1]]

(* The entry records without their cached vectors *)
SansCache(st) == [i \in Ids |-> [st[i] EXCEPT !.embedding = NoEmbedding]]

C25_KeywordSearchIgnoresIndex ==
    (last.op = "search" /\ ~last.semantic /\ last.limit > 0 /\ ~IsBlank(last.query))
        => /\ last.status = 200
           /\ last.results = keyword_query(SansCache(store), strip(last.query), last.limit)

(* C26: between rebuilds the index does not change: search and               *)
(* find_similar_terms leave the index and the identifier list as they were,  *)
(* only build_index and batch_index_update change them, and when they change *)
(* the index it is replaced as a whole: the new index holds the vectors of   *)
(* the verified entries of this run and nothing of the old one (or nothing   *)
(* at all when faiss refused the vectors).                                   *)
C26_IndexOnlyReplaced ==
    [][(index' # index \/ slang_ids' # slang_ids)
          => /\ last'.op \in {"build_index", "batch_index_update"}
             /\ index' # index
                  => /\ ~index'.is_none
                     /\ ntotal(index') = Len(index_src')
                     /\ index'.vecs = <<>> \/ index_src' = QueryAll(Verified(store'))
                     /\ \A p \in 1..ntotal(index') :
                           index'.vecs[p] = store'[index_src'[p]].embedding]_vars

C26_Witness ==
    /\ last.op = "build_index"
    /\ last.status = 200
    /\ ntotal(index) = MaxRows
    /\ Len(last.encoded) = 1
    /\ \E i \in Verified(store) : i \notin Range(last.encoded) /\ last.before[i] # NoEmbedding

(* find_similar_terms has answered *)
FoundSimilar == last.op = "find_similar" /\ last.status = 200

(* Hit k of the last find_similar_terms comes from position idx of the index *)
HitFrom(k, idx) ==
    /\ idx # 0
    /\ idx <= Len(slang_ids)
    /\ last.hits[k].id = slang_ids[idx]
    /\ last.hits[k].term = store[slang_ids[idx]].term
    /\ last.hits[k].similarity = SimScale - DistAt(idx)

(* C28: find_similar_terms(text, limit) returns at most limit entries, each  *)
(* with a similarity at or above the threshold, nearest first, and none of   *)
(* them has a term equal to text ignoring case; on an index that was never   *)
(* built or is empty it returns the empty list.                              *)
C28_SimilarTerms ==
    FoundSimilar =>
        /\ Len(last.hits) <= last.limit
        /\ \A k \in 1..Len(last.hits) :
              /\ last.hits[k].similarity >= threshold
              /\ lower(last.hits[k].term) # lower(last.query)
        /\ \A k, m \in 1..Len(last.hits) :
              k < m => last.hits[k].similarity >= last.hits[m].similarity
        /\ \E f \in [1..Len(last.hits) -> 1..Len(last.indices)] :
              /\ \A k, m \in 1..Len(last.hits) : k < m => f[k] < f[m]
              /\ \A k \in 1..Len(last.hits) : HitFrom(k, last.indices[f[k]])
        /\ (index.is_none \/ ntotal(index) = 0) => last.hits = <<>>

C28_Witness ==
    /\ FoundSimilar
    /\ Len(last.hits) = last.limit
    /\ \E i \in Range(slang_ids) :
          /\ lower(store[i].term) = lower(last.query)
          /\ store[i].term # last.query
          /\ \A k \in 1..Len(last.hits) : last.hits[k].id # i

(* C27: update_slang_term marks the entry unverified when the user who       *)
(* performs the update is not a moderator or admin; when that user is a      *)
(* moderator or admin the verification flag stays as it was, whoever         *)
(* submitted the entry, and the index is rebuilt if the entry is verified.   *)
C27_UpdateByRoleOfUpdater ==
    [][(last'.op = "update" /\ last'.status = 200)
          => IF IsModerator(last'.user)
             THEN /\ store'[last'.id].is_verified = store[last'.id].is_verified
                  /\ store'[last'.id].is_verified
                       => /\ slang_ids' = QueryAll(Verified(store'))
                          /\ index_src' = slang_ids'
             ELSE ~store'[last'.id].is_verified]_vars

(* No two entries of the store have the same term ignoring case *)
TermsUnique(st) ==
    \A i, j \in Present(st) : i # j => lower(st[i].term) # lower(st[j].term)

(* C29: after any sequence of create_slang_term and update_slang_term no two *)
(* entries have the same term ignoring case, and a create whose term exists  *)
(* already fails with a conflict and leaves the store and the index as they  *)
(* were.                                                                     *)
C29_TermsUnique ==
    [][/\ TermsUnique(store')
       /\ (last'.op = "create" /\ last'.status = 409)
            => /\ store' = store
               /\ votes' = votes
               /\ index' = index
               /\ slang_ids' = slang_ids]_vars

(* The rows of vs that are not a vote of user u on entry id *)
VotesOfOthers(vs, u, id) ==
    SelectSeq(vs, LAMBDA row : ~(row.slang_id = id /\ row.user_id = u))

(* C30: after any sequence of create_slang_term and vote_on_slang there is *)
(* at most one vote of a user on an entry, its value is 1 or -1, and a     *)
(* vote of 0 removes the vote the user has on the entry or changes nothing *)
C30_OneVotePerUserAndEntry ==
    [][/\ \A u \in Users, id \in Ids : Cardinality(existing_votes(votes', u, id)) <= 1
       /\ \A k \in 1..Len(votes') : votes'[k].vote \in {1, -1}
       /\ (last'.op = "vote" /\ last'.vote = 0)
            => /\ votes' = VotesOfOthers(votes, last'.user, last'.id)
               /\ Len(votes) - Len(votes') <= 1]_vars

(* A user has changed the vote cast before another user voted on the entry *)
C30_Witness ==
    /\ last.op = "vote"
    /\ last.vote = -1
    /\ Len(votes) = 2
    /\ votes[1].user_id = last.user
    /\ votes[1].slang_id = last.id
    /\ votes[1].vote = -1
    /\ votes[2].slang_id = last.id
    /\ votes[2].user_id # last.user
    /\ votes[2].vote = 1

=============================================================================
